---------------------------- MODULE Spec2Model ----------------------------
(***************************************************************************)
(* Model of the agile-maturity scripts aval-usuario.py (per-user report    *)
(* with commit-frequency alerts) and aval-repos-novos.py (repository       *)
(* maturity score).                                                        *)
(*                                                                         *)
(* Numbers.  Python floats are modelled by exact rationals <<n, d>> in     *)
(* lowest terms with d > 0.  Every comparison made by the code is between  *)
(* values whose exact and double-precision orderings agree for the ranges  *)
(* explored here (checked for the 0.7/0.4 thresholds up to 2000 weeks).    *)
(* round(x, k) is modelled as round-half-to-even on the exact value.       *)
(***************************************************************************)
EXTENDS Integers, Sequences, FiniteSets, TLC

VARIABLES
    pc,                  \* position of the script being run
    since_days,          \* (now - since_date).days, the window of aval-usuario.py
    commits_data,        \* len(data["commits"]) collected for the user
    frequency_analysis,  \* dict returned by analyze_commit_frequency
    report,              \* outcome of generate_detailed_report
    enabled,             \* self.enabled of the AI analyzer
    method,              \* the analyzer method that was called
    ai_input,            \* sizes of the lists handed to the method
    api_reply,           \* what the chat-completion request did, <<>>: none/raised
    ai_result,           \* dict returned by the method
    api_calls,           \* chat-completion requests issued so far
    age_days,            \* (now - created_date).days of the repository
    velocity_metrics,    \* dict of calculate_development_velocity
    collaboration_metrics, \* dict of calculate_collaboration_index
    structure_metrics,   \* dict of analyze_project_structure_metrics
    engagement_metrics,  \* dict of calculate_community_engagement
    commit_messages,     \* len(commit_messages) collected for the AI
    ai_commit_analysis,  \* dict of the commit-quality analysis
    ai_structure_analysis, \* dict of the structure analysis
    assessment,          \* final_score and maturity_level of the returned dict
    printed,             \* the "Erro ao ..." lines aval-repos-novos.py has printed
    listing,             \* commits of the user the repository holds / lists
    issues_data,         \* len(data["issues"]) collected for the user
    reviews_data,        \* len(data["reviews"]) collected for the user
    disable_ai,          \* args.disable_ai: main builds no analyzer
    ai_analysis,         \* the three dicts main of aval-usuario.py hands to the report
    api_log,             \* per request issued by a script: the method and whether it failed
    workers,             \* max_workers of the ThreadPoolExecutor
    futures,             \* state of the future submitted for each repository
    results              \* the results list of main of aval-repos-novos.py

userVars == <<since_days, commits_data, frequency_analysis, report>>
aiVars   == <<enabled, method, ai_input, api_reply, ai_result, api_calls>>
metricVars == <<age_days, velocity_metrics, collaboration_metrics,
                structure_metrics, engagement_metrics>>
repoVars == <<metricVars, commit_messages, ai_commit_analysis,
              ai_structure_analysis, assessment, printed>>
mainVars == <<listing, issues_data, reviews_data, disable_ai, ai_analysis, api_log,
              workers, futures, results>>
vars     == <<pc, userVars, aiVars, repoVars, mainVars>>

None == "None"

\* a local holding a dict, before its assignment
Unset == [unset |-> TRUE]

-----------------------------------------------------------------------------
(* Exact rationals *)

Abs(i) == IF i < 0 THEN 0 - i ELSE i

\* The arithmetic operators bind their arguments (x \in {a}) before using
\* them, so that an argument is computed once however often it is used.
RECURSIVE Gcd(_, _)
Gcd(a, b) ==
    IF b = 0 THEN a
    ELSE CHOOSE g \in {Gcd(y, x % y) : x \in {a}, y \in {b}} : TRUE

\* n/d in lowest terms, d > 0 required
Rat(n, d) ==
    CHOOSE r \in {IF x = 0 THEN <<0, 1>>
                  ELSE LET g == Gcd(Abs(x), y) IN <<x \div g, y \div g>> :
                  x \in {n}, y \in {d}} : TRUE

Num(r) == r[1]
Den(r) == r[2]

RLeq(a, b) == Num(a) * Den(b) <= Num(b) * Den(a)
RLt(a, b)  == Num(a) * Den(b) <  Num(b) * Den(a)
RGeq(a, b) == RLeq(b, a)
RAdd(a, b) ==
    CHOOSE r \in {Rat(Num(x) * Den(y) + Num(y) * Den(x), Den(x) * Den(y)) :
                  x \in {a}, y \in {b}} : TRUE
RMul(a, b) ==
    CHOOSE r \in {Rat(Num(x) * Num(y), Den(x) * Den(y)) : x \in {a}, y \in {b}} : TRUE
RMin(a, b) == IF RLeq(a, b) THEN a ELSE b
RMax(a, b) == IF RLeq(a, b) THEN b ELSE a

Zero == <<0, 1>>
One  == <<1, 1>>
Half == <<1, 2>>

InUnit(r) == RLeq(Zero, r) /\ RLeq(r, One)

RECURSIVE Pow10(_)
Pow10(k) == IF k = 0 THEN 1 ELSE 10 * Pow10(k - 1)

\* nearest integer to n/d (d > 0), ties to the even neighbour
RoundHalfEven(n, d) ==
    LET q == n \div d
        r == n % d
    IN  IF 2 * r < d THEN q
        ELSE IF 2 * r > d THEN q + 1
        ELSE IF q % 2 = 0 THEN q ELSE q + 1

\* Python round(x, k)
Round(x, k) == Rat(RoundHalfEven(Num(x) * Pow10(k), Den(x)), Pow10(k))

-----------------------------------------------------------------------------
(* Strings: a Python str is a sequence of one-character strings *)

Digits == {"0", "1", "2", "3", "4", "5", "6", "7", "8", "9"}

DigitVal ==
    "0" :> 0 @@ "1" :> 1 @@ "2" :> 2 @@ "3" :> 3 @@ "4" :> 4 @@
    "5" :> 5 @@ "6" :> 6 @@ "7" :> 7 @@ "8" :> 8 @@ "9" :> 9

Whitespace == {" ", "\n", "\t", "\r"}

LowerOf ==
    "A" :> "a" @@ "B" :> "b" @@ "C" :> "c" @@ "D" :> "d" @@ "E" :> "e" @@
    "F" :> "f" @@ "G" :> "g" @@ "H" :> "h" @@ "I" :> "i" @@ "J" :> "j" @@
    "K" :> "k" @@ "L" :> "l" @@ "M" :> "m" @@ "N" :> "n" @@ "O" :> "o" @@
    "P" :> "p" @@ "Q" :> "q" @@ "R" :> "r" @@ "S" :> "s" @@ "T" :> "t" @@
    "U" :> "u" @@ "V" :> "v" @@ "W" :> "w" @@ "X" :> "x" @@ "Y" :> "y" @@
    "Z" :> "z"

\* str.lower()
str_lower(s) ==
    [i \in 1..Len(s) |-> IF s[i] \in DOMAIN LowerOf THEN LowerOf[s[i]] ELSE s[i]]

\* sub in s
str_contains(s, sub) ==
    \E i \in 1..(Len(s) - Len(sub) + 1) : SubSeq(s, i, i + Len(sub) - 1) = sub

\* s with its leading characters of the set cs removed
str_lstrip(s, cs) ==
    LET keep == {i \in 1..Len(s) : s[i] \notin cs}
        k    == IF keep = {} THEN Len(s) + 1
                ELSE CHOOSE i \in keep : \A j \in keep : i <= j
    IN  SubSeq(s, k, Len(s))

\* s with its trailing characters of the set cs removed
str_rstrip(s, cs) ==
    LET keep == {i \in 1..Len(s) : s[i] \notin cs}
        k    == IF keep = {} THEN 0
                ELSE CHOOSE i \in keep : \A j \in keep : j <= i
    IN  SubSeq(s, 1, k)

\* str.strip(chars), and str.strip()
str_strip_chars(s, cs) == str_rstrip(str_lstrip(s, cs), cs)
str_strip(s) == str_strip_chars(s, Whitespace)

\* str.split('\n')
RECURSIVE str_split_lines(_)
str_split_lines(s) ==
    LET nl == {i \in 1..Len(s) : s[i] = "\n"}
    IN  IF nl = {} THEN <<s>>
        ELSE LET k == CHOOSE i \in nl : \A j \in nl : i <= j
             IN  <<SubSeq(s, 1, k - 1)>> \o str_split_lines(SubSeq(s, k + 1, Len(s)))

\* "\n".join(lines)
RECURSIVE str_join_lines(_)
str_join_lines(ls) ==
    IF Len(ls) = 0 THEN <<>>
    ELSE IF Len(ls) = 1 THEN ls[1]
    ELSE ls[1] \o <<"\n">> \o str_join_lines(Tail(ls))

\* last index of the run of digits of s that starts at i (i - 1: no digit at i)
digits_end(s, i) ==
    CHOOSE j \in (i - 1)..Len(s) :
        /\ \A k \in i..j : s[k] \in Digits
        /\ (j = Len(s) \/ s[j + 1] \notin Digits)

RECURSIVE int_of(_)
int_of(ds) ==
    IF Len(ds) = 0 THEN 0
    ELSE 10 * int_of(SubSeq(ds, 1, Len(ds) - 1)) + DigitVal[ds[Len(ds)]]

\* re.search(r'(\d+\.?\d*)', text): <<>> when nothing matches, else
\* <<integer digits, has dot, fraction digits>> of the leftmost match
score_match(text) ==
    LET ds == {i \in 1..Len(text) : text[i] \in Digits}
    IN  IF ds = {} THEN <<>>
        ELSE LET p  == CHOOSE i \in ds : \A j \in ds : i <= j
                 e1 == digits_end(text, p)
                 dot == e1 < Len(text) /\ text[e1 + 1] = "."
                 e2 == IF dot THEN digits_end(text, e1 + 2) ELSE e1
             IN  <<[int  |-> SubSeq(text, p, e1),
                    dot  |-> dot,
                    frac |-> IF dot THEN SubSeq(text, e1 + 2, e2) ELSE <<>>]>>

\* float(score_match.group(1))
float_of(m) == Rat(int_of(m.int \o m.frac), Pow10(Len(m.frac)))

\* max(0.0, min(1.0, score)) with the score of the first numeral, the mutant
\* without the clamp
extract_score_unclamped(text) ==
    LET score_match_ == score_match(text)
    IN  IF score_match_ # <<>> THEN float_of(score_match_[1]) ELSE Half

\* score_match = re.search(...); score = float(...) if score_match else 0.5;
\* score = max(0.0, min(1.0, score))
extract_score(text) ==
    LET score_match_ == score_match(text)
        score        == IF score_match_ # <<>> THEN float_of(score_match_[1]) ELSE Half
    IN  RMax(Zero, RMin(One, score))

kw_recomend == <<"r", "e", "c", "o", "m", "e", "n", "d">>
kw_sugest   == <<"s", "u", "g", "e", "s", "t">>
kw_melhor   == <<"m", "e", "l", "h", "o", "r">>
kw_deve     == <<"d", "e", "v", "e">>
Keywords == {kw_recomend, kw_sugest, kw_melhor, kw_deve}

\* any(keyword in line.lower() for keyword in [...])
has_keyword(line) == \E kw \in Keywords : str_contains(str_lower(line), kw)

ListMarkers == Digits \cup {".", "-", "*"} \cup Whitespace

\* re.sub(r'^[\d\.\-\*\s]+', '', line).strip()
clean_line(line) == str_strip(str_lstrip(line, ListMarkers))

\* _extract_recommendations without its final [:2]
extract_recommendations_uncapped(text) ==
    LET lines     == str_split_lines(text)
        cleaned   == [i \in 1..Len(lines) |-> clean_line(lines[i])]
        Wanted(i) == has_keyword(lines[i]) /\ Len(cleaned[i]) > 10
        idx       == {i \in 1..Len(lines) : Wanted(i)}
        RECURSIVE Pick(_)
        Pick(i)   == IF i > Len(lines) THEN <<>>
                     ELSE IF i \in idx THEN <<cleaned[i]>> \o Pick(i + 1)
                     ELSE Pick(i + 1)
    IN  Pick(1)

\* AgileRepositoryAnalyzer._extract_recommendations
extract_recommendations(text) ==
    LET recommendations == extract_recommendations_uncapped(text)
    IN  SubSeq(recommendations, 1, IF Len(recommendations) < 2 THEN Len(recommendations) ELSE 2)

\* the recommendation loop of the DetailedAgileAnalyzer methods:
\* recommendations.append(line.strip('- ').strip()) for keyword lines
detailed_recommendations(text) ==
    LET lines   == str_split_lines(text)
        RECURSIVE Pick(_)
        Pick(i) == IF i > Len(lines) THEN <<>>
                   ELSE IF has_keyword(lines[i])
                        THEN <<str_strip(str_strip_chars(lines[i], {"-", " "}))>> \o Pick(i + 1)
                        ELSE Pick(i + 1)
    IN  Pick(1)

-----------------------------------------------------------------------------
(* The two AI analyzers.  An Optional[str] is <<>> (None) or <<text>>.     *)
(* `outcome` is what the chat-completion request does when it is issued:   *)
(* <<>> raises, <<content>> returns that message content.  Every method    *)
(* yields [ret |-> the dict returned, calls |-> requests issued].          *)

Fixed(s)    == <<"fixed", s>>
Basic(s, n) == <<"basic", s, n>>
Text(t)     == <<"text", t>>

\* _call_openai of both analyzers
call_openai(is_enabled, outcome) ==
    IF ~is_enabled THEN <<>>
    ELSE IF outcome = <<>> THEN <<>>
    ELSE <<str_strip(outcome[1])>>

\* `if result:` on an Optional[str]
truthy(result) == result # <<>> /\ result[1] # <<>>

TagLines(ls) == [i \in 1..Len(ls) |-> Text(ls[i])]

Head3(ls) == SubSeq(ls, 1, IF Len(ls) < 3 THEN Len(ls) ELSE 3)

NotAvailable == [score |-> Half, analysis |-> Fixed("Analise nao disponivel"),
                 recommendations |-> <<>>]

\* the `if result:` block of the AgileRepositoryAnalyzer methods
repo_result(result) ==
    IF truthy(result)
    THEN [score           |-> extract_score(result[1]),
          analysis        |-> Text(result[1]),
          recommendations |-> TagLines(extract_recommendations(result[1]))]
    ELSE NotAvailable

\* AgileRepositoryAnalyzer.analyze_commit_quality
analyze_commit_quality(is_enabled, n_messages, outcome) ==
    IF n_messages = 0 \/ ~is_enabled
    THEN [ret |-> NotAvailable, calls |-> 0]
    ELSE [ret |-> repo_result(call_openai(is_enabled, outcome)), calls |-> 1]

\* AgileRepositoryAnalyzer.analyze_project_structure
analyze_project_structure(is_enabled, n_files, outcome) ==
    IF ~is_enabled
    THEN [ret |-> NotAvailable, calls |-> 0]
    ELSE [ret |-> repo_result(call_openai(is_enabled, outcome)), calls |-> 1]

CannedCommits ==
    <<Fixed("Melhore a clareza das mensagens de commit"),
      Fixed("Use formato convencional (feat:, fix:, docs:)"),
      Fixed("Descreva o 'porque' alem do 'o que'")>>

CannedIssues ==
    <<Fixed("Adicione criterios de aceitacao claros"),
      Fixed("Use formato 'Como... Eu quero... Para que...'"),
      Fixed("Inclua mais detalhes tecnicos")>>

CannedReviews ==
    <<Fixed("Forneca feedback mais especifico"),
      Fixed("Sugira melhorias construtivas"),
      Fixed("Foque em qualidade, seguranca e performance")>>

ConfigureOpenAI == <<Fixed("Configure OpenAI para analise detalhada")>>

\* the failure dict with a score of 0.0
AIFailure_zero == [score |-> Zero, analysis |-> Fixed("Falha na analise de IA"),
                   recommendations |-> <<>>]

AIFailure == [score |-> Half, analysis |-> Fixed("Falha na analise de IA"),
              recommendations |-> <<>>]

\* the `if result:` block of the DetailedAgileAnalyzer methods without the
\* canned list
detailed_result_uncanned(result, canned) ==
    IF truthy(result)
    THEN [score           |-> extract_score(result[1]),
          analysis        |-> Text(result[1]),
          recommendations |-> Head3(TagLines(detailed_recommendations(result[1])))]
    ELSE AIFailure

\* the `if result:` block of the DetailedAgileAnalyzer methods, with the
\* first three recommendations found or else the canned list
detailed_result(result, canned) ==
    IF truthy(result)
    THEN LET recommendations == TagLines(detailed_recommendations(result[1]))
         IN  [score           |-> extract_score(result[1]),
              analysis        |-> Text(result[1]),
              recommendations |-> IF recommendations # <<>>
                                  THEN Head3(recommendations) ELSE canned]
    ELSE AIFailure

\* analyze_commits_detailed asking the service whether or not it is enabled
analyze_commits_detailed_unguarded(is_enabled, n_commits, n_messages, outcome) ==
    IF n_commits = 0
    THEN [ret |-> [score |-> Half, analysis |-> Fixed("Nenhum commit encontrado"),
                   recommendations |-> <<>>],
          calls |-> 0]
    ELSE [ret |-> detailed_result(call_openai(TRUE, outcome), CannedCommits),
          calls |-> 1]

\* DetailedAgileAnalyzer.analyze_commits_detailed; n_messages of the
\* n_commits entries have a non-empty message
analyze_commits_detailed(is_enabled, n_commits, n_messages, outcome) ==
    IF n_commits = 0
    THEN [ret |-> [score |-> Half, analysis |-> Fixed("Nenhum commit encontrado"),
                   recommendations |-> <<>>],
          calls |-> 0]
    ELSE IF ~is_enabled \/ n_messages = 0
    THEN [ret |-> [score |-> Half,
                   analysis |-> Basic("commits encontrados", n_messages),
                   recommendations |-> ConfigureOpenAI],
          calls |-> 0]
    ELSE [ret |-> detailed_result(call_openai(is_enabled, outcome), CannedCommits),
          calls |-> 1]

\* DetailedAgileAnalyzer.analyze_issues_detailed
analyze_issues_detailed(is_enabled, n_issues, outcome) ==
    IF n_issues = 0
    THEN [ret |-> [score |-> Half, analysis |-> Fixed("Nenhuma issue encontrada"),
                   recommendations |-> <<>>],
          calls |-> 0]
    ELSE IF ~is_enabled
    THEN [ret |-> [score |-> Half,
                   analysis |-> Basic("issues encontradas", n_issues),
                   recommendations |-> ConfigureOpenAI],
          calls |-> 0]
    ELSE [ret |-> detailed_result(call_openai(is_enabled, outcome), CannedIssues),
          calls |-> 1]

\* DetailedAgileAnalyzer.analyze_reviews_detailed
analyze_reviews_detailed(is_enabled, n_reviews, outcome) ==
    IF n_reviews = 0
    THEN [ret |-> [score |-> Half, analysis |-> Fixed("Nenhuma revisao encontrada"),
                   recommendations |-> <<>>],
          calls |-> 0]
    ELSE IF ~is_enabled
    THEN [ret |-> [score |-> Half,
                   analysis |-> Basic("revisoes encontradas", n_reviews),
                   recommendations |-> ConfigureOpenAI],
          calls |-> 0]
    ELSE [ret |-> detailed_result(call_openai(is_enabled, outcome), CannedReviews),
          calls |-> 1]

-----------------------------------------------------------------------------
(* aval-repos-novos.py: the four collected metrics.  `raises` is whether   *)
(* the platform query inside the function raises.                          *)

\* star_score without the saturation at the ceiling
star_score_unbounded(stars) == Rat(stars, 10)

\* min(1.0, stars / 10.0) and its siblings
star_score(stars)                   == RMin(One, Rat(stars, 10))
fork_score(forks)                   == RMin(One, Rat(forks, 5))
watch_score(watchers)               == RMin(One, Rat(watchers, 10))
activity_score(total_issues, total_prs) == RMin(One, Rat(total_issues + total_prs, 20))
diversity_score(total_contributors) == RMin(One, Rat(total_contributors, 5))

\* max(1, (now - created_date).days / 7)
weeks_since(days) == RMax(One, Rat(days, 7))

\* min(1.0, velocity / 5.0)
velocity_score(total_commits, days) ==
    RMin(One, RMul(RMul(<<total_commits, 1>>, <<Den(weeks_since(days)), Num(weeks_since(days))>>),
                   <<1, 5>>))

\* calculate_development_velocity with the neutral score 0.5 on a failed
\* listing
calculate_development_velocity_neutral(raises, total_commits, days) ==
    IF raises
    THEN [total_commits |-> 0, weeks_since_creation |-> Zero,
          commits_per_week |-> Zero, score |-> Half]
    ELSE LET weeks_since_creation == weeks_since(days)
             velocity == RMul(<<total_commits, 1>>,
                              <<Den(weeks_since_creation), Num(weeks_since_creation)>>)
         IN  [total_commits        |-> total_commits,
              weeks_since_creation |-> Round(weeks_since_creation, 1),
              commits_per_week     |-> Round(velocity, 2),
              score                |-> velocity_score(total_commits, days)]


calculate_development_velocity(raises, total_commits, days) ==
    IF raises
    THEN [total_commits |-> 0, weeks_since_creation |-> Zero,
          commits_per_week |-> Zero, score |-> Zero]
    ELSE LET weeks_since_creation == weeks_since(days)
             velocity == RMul(<<total_commits, 1>>,
                              <<Den(weeks_since_creation), Num(weeks_since_creation)>>)
         IN  [total_commits        |-> total_commits,
              weeks_since_creation |-> Round(weeks_since_creation, 1),
              commits_per_week     |-> Round(velocity, 2),
              score                |-> velocity_score(total_commits, days)]

\* the collaboration score flattened into one ceiling of 25 items
calculate_collaboration_index_flat(raises, total_issues, total_prs, total_contributors) ==
    IF raises
    THEN [total_issues |-> 0, total_prs |-> 0, unique_contributors |-> 0,
          score |-> Zero]
    ELSE LET collaboration_score ==
                 RMin(One, Rat(total_issues + total_prs + total_contributors, 25))
         IN  [total_issues        |-> total_issues,
              total_prs           |-> total_prs,
              unique_contributors |-> total_contributors,
              score               |-> Round(collaboration_score, 3)]

calculate_collaboration_index(raises, total_issues, total_prs, total_contributors) ==
    IF raises
    THEN [total_issues |-> 0, total_prs |-> 0, unique_contributors |-> 0,
          score |-> Zero]
    ELSE LET collaboration_score ==
                 RMul(RAdd(activity_score(total_issues, total_prs),
                           diversity_score(total_contributors)), Half)
         IN  [total_issues        |-> total_issues,
              total_prs           |-> total_prs,
              unique_contributors |-> total_contributors,
              score               |-> Round(collaboration_score, 3)]

P_readme    == <<"R", "E", "A", "D", "M", "E", ".", "m", "d">>
P_gitignore == <<".", "g", "i", "t", "i", "g", "n", "o", "r", "e">>
P_license   == <<"L", "I", "C", "E", "N", "S", "E">>
P_tests     == <<"t", "e", "s", "t", "s">>
P_github    == <<".", "g", "i", "t", "h", "u", "b">>
P_src       == <<"s", "r", "c">>

Paths == {P_readme, P_gitignore, P_license, P_tests, P_github, P_src}

s_readme  == <<"r", "e", "a", "d", "m", "e">>
s_license == <<"l", "i", "c", "e", "n", "s", "e">>
s_test    == <<"t", "e", "s", "t">>
s_ci      == <<"c", "i">>

BoolInt(b) == IF b THEN 1 ELSE 0

\* the checklist without the .gitignore flag, over the four flags left
analyze_project_structure_metrics_four(raises, file_structure) ==
    IF raises
    THEN [total_files |-> 0, has_readme |-> FALSE, has_tests |-> FALSE,
          has_ci |-> FALSE, file_structure |-> {}, score |-> Zero]
    ELSE LET has_readme    == \E f \in file_structure : str_contains(str_lower(f), s_readme)
             has_license   == \E f \in file_structure : str_contains(str_lower(f), s_license)
             has_tests     == \E f \in file_structure : str_contains(str_lower(f), s_test)
             has_ci        == \E f \in file_structure :
                                  str_contains(f, P_github) \/ str_contains(str_lower(f), s_ci)
             structure_score ==
                 Rat(BoolInt(has_readme) + BoolInt(has_license)
                     + BoolInt(has_tests) + BoolInt(has_ci), 4)
         IN  [total_files    |-> Cardinality(file_structure),
              has_readme     |-> has_readme,
              has_tests      |-> has_tests,
              has_ci         |-> has_ci,
              file_structure |-> file_structure,
              score          |-> Round(structure_score, 3)]

\* file_structure is the set of paths listed (never more than 15 here)
analyze_project_structure_metrics(raises, file_structure) ==
    IF raises
    THEN [total_files |-> 0, has_readme |-> FALSE, has_tests |-> FALSE,
          has_ci |-> FALSE, file_structure |-> {}, score |-> Zero]
    ELSE LET has_readme    == \E f \in file_structure : str_contains(str_lower(f), s_readme)
             has_gitignore == P_gitignore \in file_structure
             has_license   == \E f \in file_structure : str_contains(str_lower(f), s_license)
             has_tests     == \E f \in file_structure : str_contains(str_lower(f), s_test)
             has_ci        == \E f \in file_structure :
                                  str_contains(f, P_github) \/ str_contains(str_lower(f), s_ci)
             structure_score ==
                 Rat(BoolInt(has_readme) + BoolInt(has_gitignore) + BoolInt(has_license)
                     + BoolInt(has_tests) + BoolInt(has_ci), 5)
         IN  [total_files    |-> Cardinality(file_structure),
              has_readme     |-> has_readme,
              has_tests      |-> has_tests,
              has_ci         |-> has_ci,
              file_structure |-> file_structure,
              score          |-> Round(structure_score, 3)]

calculate_community_engagement(raises, stars, forks, watchers) ==
    IF raises
    THEN [stars |-> 0, forks |-> 0, watchers |-> 0, score |-> Zero]
    ELSE LET engagement_score ==
                 RMul(RAdd(RAdd(star_score(stars), fork_score(forks)),
                           watch_score(watchers)), <<1, 3>>)
         IN  [stars |-> stars, forks |-> forks, watchers |-> watchers,
              score |-> Round(engagement_score, 3)]

\* the print of the except clause of a collection: `what` names the line
print_error(out, raises, what) == IF raises THEN Append(out, what) ELSE out

NoMetric == [score |-> Zero]

RepoIdle ==
    /\ age_days = 0
    /\ velocity_metrics = NoMetric
    /\ collaboration_metrics = NoMetric
    /\ structure_metrics = NoMetric
    /\ engagement_metrics = NoMetric
    /\ commit_messages = 0
    /\ ai_commit_analysis = NotAvailable
    /\ ai_structure_analysis = NotAvailable
    /\ assessment = Unset
    /\ printed = <<>>

-----------------------------------------------------------------------------
(* One call of an analyzer method, for each method of both analyzers *)

\* bounds of the exploration
MaxLines == 4
MaxItems == 1

L_score  == <<"S", "c", "o", "r", "e", ":", " ", "0", ".", "7", "5", ".">>
L_deve   == <<"-", " ", "D", "e", "v", "e", " ", "t", "e", "s", "t", "a", "r">>
L_melhor == <<"1", ".", " ", "m", "e", "l", "h", "o", "r", "a", "r", " ", "d", "o", "c", "s">>
L_short  == <<"*", " ", "d", "e", "v", "e", " ", "r", "e", "v", "e", "r">>
L_plain  == <<"n", "o", "t", "a", " ", "1", "0", "/", "1", "0">>
L_blank  == <<" ">>

ReplyLines == {L_score, L_deve, L_melhor, L_short, L_plain, L_blank}

\* message contents the service may return: up to MaxLines lines
Contents ==
    {str_join_lines(ls) : ls \in UNION {[1..n -> ReplyLines] : n \in 1..MaxLines}}

Outcomes == {<<>>} \cup {<<c>> : c \in Contents}

AIIdle ==
    /\ enabled = FALSE
    /\ method = None
    /\ ai_input = [items |-> 0, messages |-> 0]
    /\ api_reply = <<>>
    /\ ai_result = NotAvailable
    /\ api_calls = 0

UserIdle ==
    /\ since_days = 0
    /\ commits_data = 0
    /\ frequency_analysis = Unset
    /\ report = None

MainIdle ==
    /\ listing = [authored |-> 0, fetched |-> 0]
    /\ issues_data = 0
    /\ reviews_data = 0
    /\ disable_ai = FALSE
    /\ ai_analysis = <<>>
    /\ api_log = <<>>
    /\ workers = 0
    /\ futures = <<>>
    /\ results = <<>>

InitAnalyzer ==
    /\ pc = "analyze"
    /\ enabled \in BOOLEAN
    /\ method = None
    /\ ai_input = [items |-> 0, messages |-> 0]
    /\ api_reply = <<>>
    /\ ai_result = NotAvailable
    /\ api_calls = 0
    /\ UserIdle
    /\ RepoIdle
    /\ MainIdle

\* the method `m` was called with lists of n (and k non-empty) items, the
\* request did `outcome`, and the method returned r
Returned(m, n, k, outcome, r) ==
    /\ r.calls = 0 => outcome = <<>>
    /\ method' = m
    /\ ai_input' = [items |-> n, messages |-> k]
    /\ api_reply' = outcome
    /\ ai_result' = r.ret
    /\ api_calls' = api_calls + r.calls
    /\ pc' = "analyzed"
    /\ UNCHANGED <<mainVars, enabled, userVars, repoVars>>

AnalyzeCommitQuality ==
    /\ pc = "analyze"
    /\ \E n \in 0..MaxItems, outcome \in Outcomes :
          Returned("analyze_commit_quality", n, n, outcome,
                   analyze_commit_quality(enabled, n, outcome))

AnalyzeProjectStructure ==
    /\ pc = "analyze"
    /\ \E n \in 0..MaxItems, outcome \in Outcomes :
          Returned("analyze_project_structure", n, n, outcome,
                   analyze_project_structure(enabled, n, outcome))

AnalyzeCommitsDetailed ==
    /\ pc = "analyze"
    /\ \E n \in 0..MaxItems, outcome \in Outcomes :
       \E k \in 0..n :
          Returned("analyze_commits_detailed", n, k, outcome,
                   analyze_commits_detailed(enabled, n, k, outcome))

AnalyzeIssuesDetailed ==
    /\ pc = "analyze"
    /\ \E n \in 0..MaxItems, outcome \in Outcomes :
          Returned("analyze_issues_detailed", n, n, outcome,
                   analyze_issues_detailed(enabled, n, outcome))

AnalyzeReviewsDetailed ==
    /\ pc = "analyze"
    /\ \E n \in 0..MaxItems, outcome \in Outcomes :
          Returned("analyze_reviews_detailed", n, n, outcome,
                   analyze_reviews_detailed(enabled, n, outcome))

NextAnalyzer ==
    \/ AnalyzeCommitQuality
    \/ AnalyzeProjectStructure
    \/ AnalyzeCommitsDetailed
    \/ AnalyzeIssuesDetailed
    \/ AnalyzeReviewsDetailed

SpecAnalyzer == InitAnalyzer /\ [][NextAnalyzer]_vars

-----------------------------------------------------------------------------
(* Each metric function on its own, over ranges of raw counts *)

\* bounds of the exploration
MaxCommits      == 12
MaxAgeDays      == 15
FutureDays      == 1
MaxIssues       == 12
MaxPRs          == 12
MaxContributors == 7
MaxStars        == 12
MaxForks        == 7
MaxWatchers     == 12
MaxNegative     == 2

InitMetrics ==
    /\ pc = "measure"
    /\ UserIdle
    /\ AIIdle
    /\ RepoIdle
    /\ MainIdle

MeasureVelocity ==
    /\ pc = "measure"
    /\ \E raises \in BOOLEAN, c \in 0..MaxCommits, d \in (0 - FutureDays)..MaxAgeDays :
          /\ raises => (c = 0 /\ d = 0)
          /\ age_days' = d
          /\ velocity_metrics' = calculate_development_velocity(raises, c, d)
          /\ printed' = print_error(printed, raises, "Erro ao calcular velocidade")
    /\ pc' = "measured"
    /\ UNCHANGED <<mainVars, collaboration_metrics, structure_metrics, engagement_metrics,
                   commit_messages, ai_commit_analysis, ai_structure_analysis,
                   assessment, userVars, aiVars>>

MeasureCollaboration ==
    /\ pc = "measure"
    /\ \E raises \in BOOLEAN, i \in 0..MaxIssues, p \in 0..MaxPRs,
          k \in 0..MaxContributors :
          /\ raises => (i = 0 /\ p = 0 /\ k = 0)
          /\ k <= i + p
          /\ collaboration_metrics' = calculate_collaboration_index(raises, i, p, k)
          /\ printed' = print_error(printed, raises, "Erro ao calcular colaboracao")
    /\ pc' = "measured"
    /\ UNCHANGED <<mainVars, age_days, velocity_metrics, structure_metrics, engagement_metrics,
                   commit_messages, ai_commit_analysis, ai_structure_analysis,
                   assessment, userVars, aiVars>>

MeasureStructure ==
    /\ pc = "measure"
    /\ \E raises \in BOOLEAN, fs \in SUBSET Paths :
          /\ raises => fs = {}
          /\ structure_metrics' = analyze_project_structure_metrics(raises, fs)
          /\ printed' = print_error(printed, raises, "Erro ao analisar estrutura")
    /\ pc' = "measured"
    /\ UNCHANGED <<mainVars, age_days, velocity_metrics, collaboration_metrics, engagement_metrics,
                   commit_messages, ai_commit_analysis, ai_structure_analysis,
                   assessment, userVars, aiVars>>

\* the platform reports counts >= 0; the negative ones are the "raw input
\* whatsoever" that the score is required to withstand
MeasureEngagement ==
    /\ pc = "measure"
    /\ \E raises \in BOOLEAN, st \in (0 - MaxNegative)..MaxStars,
          fk \in (0 - MaxNegative)..MaxForks, w \in (0 - MaxNegative)..MaxWatchers :
          /\ raises => (st = 0 /\ fk = 0 /\ w = 0)
          /\ engagement_metrics' = calculate_community_engagement(raises, st, fk, w)
          /\ printed' = print_error(printed, raises, "Erro ao calcular engajamento")
    /\ pc' = "measured"
    /\ UNCHANGED <<mainVars, age_days, velocity_metrics, collaboration_metrics, structure_metrics,
                   commit_messages, ai_commit_analysis, ai_structure_analysis,
                   assessment, userVars, aiVars>>

NextMetrics ==
    \/ MeasureVelocity
    \/ MeasureCollaboration
    \/ MeasureStructure
    \/ MeasureEngagement

SpecMetrics == InitMetrics /\ [][NextMetrics]_vars

-----------------------------------------------------------------------------
(* analyze_repository_comprehensive, step by step *)

\* the weight table with the two AI weights exchanged
AGILE_METRICS_WEIGHTS_swapped ==
    [development_velocity   |-> <<25, 100>>,
     collaboration_index    |-> <<20, 100>>,
     code_quality           |-> <<15, 100>>,
     documentation_maturity |-> <<20, 100>>,
     project_structure      |-> <<10, 100>>,
     community_engagement   |-> <<10, 100>>]

\* the weight table with a heavier first weight
AGILE_METRICS_WEIGHTS_heavy ==
    [development_velocity   |-> <<35, 100>>,
     collaboration_index    |-> <<20, 100>>,
     code_quality           |-> <<20, 100>>,
     documentation_maturity |-> <<15, 100>>,
     project_structure      |-> <<10, 100>>,
     community_engagement   |-> <<10, 100>>]

AGILE_METRICS_WEIGHTS ==
    [development_velocity   |-> <<25, 100>>,
     collaboration_index    |-> <<20, 100>>,
     code_quality           |-> <<20, 100>>,
     documentation_maturity |-> <<15, 100>>,
     project_structure      |-> <<10, 100>>,
     community_engagement   |-> <<10, 100>>]

\* the weighted sum of lines 298-305
weighted_sum(velocity, collaboration, ai_commit, ai_structure, structure, engagement) ==
    RAdd(RAdd(RAdd(RAdd(RAdd(
        RMul(velocity,      AGILE_METRICS_WEIGHTS.development_velocity),
        RMul(collaboration, AGILE_METRICS_WEIGHTS.collaboration_index)),
        RMul(ai_commit,     AGILE_METRICS_WEIGHTS.code_quality)),
        RMul(ai_structure,  AGILE_METRICS_WEIGHTS.documentation_maturity)),
        RMul(structure,     AGILE_METRICS_WEIGHTS.project_structure)),
        RMul(engagement,    AGILE_METRICS_WEIGHTS.community_engagement))

\* the if/elif chain of lines 307-314
maturity_of(final_score) ==
    IF RGeq(final_score, <<8, 10>>) THEN "Excelente"
    ELSE IF RGeq(final_score, <<6, 10>>) THEN "Maduro"
    ELSE IF RGeq(final_score, <<4, 10>>) THEN "Em Desenvolvimento"
    ELSE "Iniciante"

\* final_score and maturity_level of the dict returned
assess(velocity, collaboration, ai_commit, ai_structure, structure, engagement) ==
    LET final_score == weighted_sum(velocity, collaboration, ai_commit,
                                    ai_structure, structure, engagement)
        maturity_level == maturity_of(final_score)
    IN  [final_score |-> Round(final_score, 3), maturity_level |-> maturity_level]

IAUnavailable == [score |-> Half, analysis |-> Fixed("IA nao disponivel"),
                  recommendations |-> <<>>]

\* what the platform and the service answer in the runs explored:
\* <<raises, total_commits, days>>
VelocityCases ==
    {<<TRUE, 0, 0>>} \cup {<<FALSE, c, d>> : c \in {0, 1, 3, 5}, d \in {7, 8}}
\* <<raises, total_issues, total_prs, total_contributors>>
CollaborationCases ==
    {<<TRUE, 0, 0, 0>>, <<FALSE, 0, 0, 0>>, <<FALSE, 3, 1, 1>>, <<FALSE, 6, 4, 3>>,
     <<FALSE, 12, 8, 5>>}
\* <<raises, file_structure>>
StructureCases ==
    {<<TRUE, {}>>, <<FALSE, {}>>, <<FALSE, {P_readme}>>,
     <<FALSE, {P_readme, P_tests, P_github}>>, <<FALSE, Paths>>}
\* <<raises, stars, forks, watchers>>
EngagementCases ==
    {<<TRUE, 0, 0, 0>>, <<FALSE, 0, 0, 0>>, <<FALSE, 0, 0, 10>>, <<FALSE, 5, 1, 3>>,
     <<FALSE, 10, 5, 10>>}
RepoOutcomes == {<<>>, <<L_score>>, <<L_plain>>, <<L_deve>>}

\* the record of the requests a script has issued, after a method that
\* issued `calls` of them with the outcome `outcome`
logged(log, m, calls, outcome) ==
    IF calls = 1 THEN Append(log, [method |-> m, failed |-> outcome = <<>>]) ELSE log

InitRepo ==
    /\ pc = "velocity"
    /\ enabled \in BOOLEAN
    /\ method = None
    /\ ai_input = [items |-> 0, messages |-> 0]
    /\ api_reply = <<>>
    /\ ai_result = NotAvailable
    /\ api_calls = 0
    /\ UserIdle
    /\ RepoIdle
    /\ MainIdle

RepoVelocity ==
    /\ pc = "velocity"
    /\ \E c \in VelocityCases :
          /\ age_days' = c[3]
          /\ velocity_metrics' = calculate_development_velocity(c[1], c[2], c[3])
          /\ printed' = print_error(printed, c[1], "Erro ao calcular velocidade")
    /\ pc' = "collaboration"
    /\ UNCHANGED <<mainVars, collaboration_metrics, structure_metrics, engagement_metrics,
                   commit_messages, ai_commit_analysis, ai_structure_analysis,
                   assessment, userVars, aiVars>>

RepoCollaboration ==
    /\ pc = "collaboration"
    /\ \E c \in CollaborationCases :
          /\ collaboration_metrics' = calculate_collaboration_index(c[1], c[2], c[3], c[4])
          /\ printed' = print_error(printed, c[1], "Erro ao calcular colaboracao")
    /\ pc' = "structure"
    /\ UNCHANGED <<mainVars, age_days, velocity_metrics, structure_metrics, engagement_metrics,
                   commit_messages, ai_commit_analysis, ai_structure_analysis,
                   assessment, userVars, aiVars>>

RepoStructure ==
    /\ pc = "structure"
    /\ \E c \in StructureCases :
          /\ structure_metrics' = analyze_project_structure_metrics(c[1], c[2])
          /\ printed' = print_error(printed, c[1], "Erro ao analisar estrutura")
    /\ pc' = "engagement"
    /\ UNCHANGED <<mainVars, age_days, velocity_metrics, collaboration_metrics, engagement_metrics,
                   commit_messages, ai_commit_analysis, ai_structure_analysis,
                   assessment, userVars, aiVars>>

RepoEngagement ==
    /\ pc = "engagement"
    /\ \E c \in EngagementCases :
          /\ engagement_metrics' = calculate_community_engagement(c[1], c[2], c[3], c[4])
          /\ printed' = print_error(printed, c[1], "Erro ao calcular engajamento")
    /\ pc' = "collect"
    /\ UNCHANGED <<mainVars, age_days, velocity_metrics, collaboration_metrics, structure_metrics,
                   commit_messages, ai_commit_analysis, ai_structure_analysis,
                   assessment, userVars, aiVars>>

\* lines 272-287: the commit messages for the AI; a failed listing leaves none
RepoCollect ==
    /\ pc = "collect"
    /\ \E raises \in BOOLEAN, n \in 0..MaxItems :
          /\ raises => n = 0
          /\ commit_messages' = n
          /\ printed' = print_error(printed, raises, "Erro ao coletar dados")
    /\ pc' = "ai_commit"
    /\ UNCHANGED <<mainVars, metricVars, ai_commit_analysis, ai_structure_analysis,
                   assessment, userVars, aiVars>>

\* lines 290, 293-294
RepoCommitQuality ==
    /\ pc = "ai_commit"
    /\ \E outcome \in RepoOutcomes :
          LET r == IF enabled
                   THEN analyze_commit_quality(enabled, commit_messages, outcome)
                   ELSE [ret |-> IAUnavailable, calls |-> 0]
          IN  /\ r.calls = 0 => outcome = <<>>
              /\ ai_commit_analysis' = r.ret
              /\ api_calls' = api_calls + r.calls
              /\ api_log' = logged(api_log, "analyze_commit_quality", r.calls, outcome)
    /\ pc' = "ai_structure"
    /\ UNCHANGED <<metricVars, commit_messages, ai_structure_analysis, assessment, printed,
                   userVars, enabled, method, ai_input, api_reply, ai_result,
                   listing, issues_data, reviews_data, disable_ai, ai_analysis,
                   workers, futures, results>>

\* lines 291, 293, 295
RepoProjectStructure ==
    /\ pc = "ai_structure"
    /\ \E outcome \in RepoOutcomes :
          LET r == IF enabled
                   THEN analyze_project_structure(enabled,
                            Cardinality(structure_metrics.file_structure), outcome)
                   ELSE [ret |-> IAUnavailable, calls |-> 0]
          IN  /\ r.calls = 0 => outcome = <<>>
              /\ ai_structure_analysis' = r.ret
              /\ api_calls' = api_calls + r.calls
              /\ api_log' = logged(api_log, "analyze_project_structure", r.calls, outcome)
    /\ pc' = "score"
    /\ UNCHANGED <<metricVars, commit_messages, ai_commit_analysis, assessment, printed,
                   userVars, enabled, method, ai_input, api_reply, ai_result,
                   listing, issues_data, reviews_data, disable_ai, ai_analysis,
                   workers, futures, results>>

\* lines 297-327
RepoScore ==
    /\ pc = "score"
    /\ assessment' = assess(velocity_metrics.score, collaboration_metrics.score,
                            ai_commit_analysis.score, ai_structure_analysis.score,
                            structure_metrics.score, engagement_metrics.score)
    /\ pc' = "assessed"
    /\ UNCHANGED <<mainVars, metricVars, commit_messages, ai_commit_analysis,
                   ai_structure_analysis, printed, userVars, aiVars>>

NextRepo ==
    \/ RepoVelocity
    \/ RepoCollaboration
    \/ RepoStructure
    \/ RepoEngagement
    \/ RepoCollect
    \/ RepoCommitQuality
    \/ RepoProjectStructure
    \/ RepoScore

SpecRepo == InitRepo /\ [][NextRepo]_vars

-----------------------------------------------------------------------------
(* main() of aval-repos-novos.py: the worker pool (lines 375-390) *)

\* bounds of the exploration
MaxRepos   == 3
MaxWorkers == 2

\* what analyze_single_repo returns for repository r: the dict of
\* analyze_repository_comprehensive, or None (<<>>) when that raised
single_repo_result(r, raised) == IF raised THEN <<>> ELSE <<[repo_name |-> r]>>

\* lines 388-390 with the `if result:` left out
collect_result_unfiltered(collected, result) == Append(collected, result)

\* lines 388-390: result = future.result(); if result: results.append(result)
collect_result(collected, result) ==
    IF result # <<>> THEN Append(collected, result) ELSE collected

Repos == DOMAIN futures

InState(st) == {r \in Repos : futures[r].state = st}

InitPool ==
    /\ pc = "submitting"
    /\ workers \in 1..MaxWorkers
    /\ \E n \in 1..MaxRepos :
          futures = [r \in 1..n |-> [state |-> "new", raised |-> FALSE]]
    /\ results = <<>>
    /\ listing = [authored |-> 0, fetched |-> 0]
    /\ issues_data = 0
    /\ reviews_data = 0
    /\ disable_ai = FALSE
    /\ ai_analysis = <<>>
    /\ api_log = <<>>
    /\ UserIdle
    /\ AIIdle
    /\ RepoIdle

\* line 385: executor.submit for the next repository of repos_to_analyze
PoolSubmit ==
    /\ pc = "submitting"
    /\ \E r \in InState("new") :
          /\ \A q \in InState("new") : r <= q
          /\ futures' = [futures EXCEPT ![r].state = "pending"]
          /\ pc' = IF InState("new") = {r} THEN "collecting" ELSE "submitting"
    /\ UNCHANGED <<userVars, aiVars, repoVars, listing, issues_data, reviews_data,
                   disable_ai, ai_analysis, api_log, workers, results>>

\* a free worker thread takes the oldest queued task
PoolStart ==
    /\ Cardinality(InState("running")) < workers
    /\ \E r \in InState("pending") :
          /\ \A q \in InState("pending") : r <= q
          /\ futures' = [futures EXCEPT ![r].state = "running"]
    /\ UNCHANGED <<pc, userVars, aiVars, repoVars, listing, issues_data, reviews_data,
                   disable_ai, ai_analysis, api_log, workers, results>>

\* lines 377-379: analyze_repository_comprehensive returned its dict
PoolReturn ==
    /\ \E r \in InState("running") :
          futures' = [futures EXCEPT ![r] = [state |-> "done", raised |-> FALSE]]
    /\ UNCHANGED <<pc, userVars, aiVars, repoVars, listing, issues_data, reviews_data,
                   disable_ai, ai_analysis, api_log, workers, results>>

\* lines 380-382: it raised; the exception is printed and None returned
PoolRaise ==
    /\ \E r \in InState("running") :
          futures' = [futures EXCEPT ![r] = [state |-> "done", raised |-> TRUE]]
    /\ UNCHANGED <<pc, userVars, aiVars, repoVars, listing, issues_data, reviews_data,
                   disable_ai, ai_analysis, api_log, workers, results>>

\* lines 387-390: as_completed yields a finished future to the main thread
PoolCollect ==
    /\ pc = "collecting"
    /\ \E r \in InState("done") :
          /\ results' = collect_result(results, single_repo_result(r, futures[r].raised))
          /\ futures' = [futures EXCEPT ![r].state = "yielded"]
    /\ UNCHANGED <<pc, userVars, aiVars, repoVars, listing, issues_data, reviews_data,
                   disable_ai, ai_analysis, api_log, workers>>

\* the for loop and the with block end once every future was yielded
PoolShutdown ==
    /\ pc = "collecting"
    /\ InState("yielded") = Repos
    /\ pc' = "pooled"
    /\ UNCHANGED <<userVars, aiVars, repoVars, mainVars>>

NextPool ==
    \/ PoolSubmit
    \/ PoolStart
    \/ PoolReturn
    \/ PoolRaise
    \/ PoolCollect
    \/ PoolShutdown

SpecPool == InitPool /\ [][NextPool]_vars

-----------------------------------------------------------------------------

(* aval-usuario.py: collection and commit-frequency heuristic *)

SAMPLE_SIZE == 20

\* bounds of the exploration
MaxAuthored   == 24
InvertedDays  == 8
MaxWindowDays == 215

WindowDays == (0 - InvertedDays)..MaxWindowDays

\* commits kept by collect_user_data when the repository lists `authored`
\* commits of the user in the window and the listing raises GithubException
\* after `fetched` of them (fetched = authored: it does not raise)
collect_commits(authored, fetched) ==
    IF fetched >= SAMPLE_SIZE THEN SAMPLE_SIZE ELSE fetched

\* frequency_level with the 0.7 threshold made strict
frequency_level_strict(commits_total, weeks_in_period, weeks_inactive) ==
    LET commits_per_week == Rat(commits_total, weeks_in_period)
        wi               == <<weeks_inactive, 1>>
        wp               == <<weeks_in_period, 1>>
    IN  IF RLt(commits_per_week, One)
        THEN IF RLt(RMul(wp, <<7, 10>>), wi) THEN <<"high", "ALERTA">>
             ELSE IF RGeq(wi, RMul(wp, <<4, 10>>)) THEN <<"medium", "Atencao">>
             ELSE IF RLt(commits_per_week, Half) THEN <<"low", "Frequencia baixa">>
             ELSE <<"normal", "Frequencia adequada">>
        ELSE <<"good", "Boa frequencia">>

\* frequency_level with the commits_per_week < 0.5 test made first
frequency_level_lowfirst(commits_total, weeks_in_period, weeks_inactive) ==
    LET commits_per_week == Rat(commits_total, weeks_in_period)
        wi               == <<weeks_inactive, 1>>
        wp               == <<weeks_in_period, 1>>
    IN  IF RLt(commits_per_week, One)
        THEN IF RLt(commits_per_week, Half) THEN <<"low", "Frequencia baixa">>
             ELSE IF RGeq(wi, RMul(wp, <<7, 10>>)) THEN <<"high", "ALERTA">>
             ELSE IF RGeq(wi, RMul(wp, <<4, 10>>)) THEN <<"medium", "Atencao">>
             ELSE <<"normal", "Frequencia adequada">>
        ELSE <<"good", "Boa frequencia">>


\* frequency_level with the 0.7 and 0.4 thresholds exchanged
frequency_level_exchanged(commits_total, weeks_in_period, weeks_inactive) ==
    LET commits_per_week == Rat(commits_total, weeks_in_period)
        wi               == <<weeks_inactive, 1>>
        wp               == <<weeks_in_period, 1>>
    IN  IF RLt(commits_per_week, One)
        THEN IF RGeq(wi, RMul(wp, <<7, 10>>)) THEN <<"medium", "Atencao">>
             ELSE IF RGeq(wi, RMul(wp, <<4, 10>>)) THEN <<"high", "ALERTA">>
             ELSE IF RLt(commits_per_week, Half) THEN <<"low", "Frequencia baixa">>
             ELSE <<"normal", "Frequencia adequada">>
        ELSE <<"good", "Boa frequencia">>


\* the alert chain of analyze_commit_frequency for commits_total > 0:
\* <<alert_level, frequency_alert>>
frequency_level(commits_total, weeks_in_period, weeks_inactive) ==
    LET commits_per_week == Rat(commits_total, weeks_in_period)
        wi               == <<weeks_inactive, 1>>
        wp               == <<weeks_in_period, 1>>
    IN  IF RLt(commits_per_week, One)
        THEN IF RGeq(wi, RMul(wp, <<7, 10>>)) THEN <<"high", "ALERTA">>
             ELSE IF RGeq(wi, RMul(wp, <<4, 10>>)) THEN <<"medium", "Atencao">>
             ELSE IF RLt(commits_per_week, Half) THEN <<"low", "Frequencia baixa">>
             ELSE <<"normal", "Frequencia adequada">>
        ELSE <<"good", "Boa frequencia">>

\* analyze_commit_frequency with the window floored at 2 weeks
analyze_commit_frequency_floor2(n_commits, days) ==
    IF n_commits = 0
    THEN [commits_per_week |-> Zero,
          weeks_inactive   |-> 0,
          frequency_alert  |-> "Nenhum commit encontrado no periodo",
          alert_level      |-> "critical"]
    ELSE
    LET weeks_in_period  == IF days \div 7 >= 2 THEN days \div 7 ELSE 2
        commits_total    == n_commits
        commits_per_week == Rat(commits_total, weeks_in_period)
        weeks_inactive   == IF weeks_in_period - commits_total >= 0
                            THEN weeks_in_period - commits_total ELSE 0
        level == frequency_level(commits_total, weeks_in_period, weeks_inactive)
    IN  [commits_per_week |-> Round(commits_per_week, 2),
         weeks_inactive   |-> weeks_inactive,
         weeks_total      |-> weeks_in_period,
         frequency_alert  |-> level[2],
         alert_level      |-> level[1]]

\* analyze_commit_frequency with weeks_inactive not floored at 0
analyze_commit_frequency_unfloored(n_commits, days) ==
    IF n_commits = 0
    THEN [commits_per_week |-> Zero,
          weeks_inactive   |-> 0,
          frequency_alert  |-> "Nenhum commit encontrado no periodo",
          alert_level      |-> "critical"]
    ELSE
    LET weeks_in_period  == IF days \div 7 >= 1 THEN days \div 7 ELSE 1
        commits_total    == n_commits
        commits_per_week == Rat(commits_total, weeks_in_period)
        weeks_inactive   == weeks_in_period - commits_total
        level == frequency_level(commits_total, weeks_in_period, weeks_inactive)
    IN  [commits_per_week |-> Round(commits_per_week, 2),
         weeks_inactive   |-> weeks_inactive,
         weeks_total      |-> weeks_in_period,
         frequency_alert  |-> level[2],
         alert_level      |-> level[1]]

analyze_commit_frequency(n_commits, days) ==
    IF n_commits = 0
    THEN [commits_per_week |-> Zero,
          weeks_inactive   |-> 0,
          frequency_alert  |-> "Nenhum commit encontrado no periodo",
          alert_level      |-> "critical"]
    ELSE
    LET weeks_in_period  == IF days \div 7 >= 1 THEN days \div 7 ELSE 1
        commits_total    == n_commits
        commits_per_week == Rat(commits_total, weeks_in_period)
        weeks_inactive   == IF commits_total = 0 THEN weeks_in_period
                            ELSE IF weeks_in_period - commits_total >= 0
                                 THEN weeks_in_period - commits_total ELSE 0
        level == IF commits_total = 0 THEN <<"critical", "CRITICO">>
                 ELSE frequency_level(commits_total, weeks_in_period, weeks_inactive)
    IN  [commits_per_week |-> Round(commits_per_week, 2),
         weeks_inactive   |-> weeks_inactive,
         weeks_total      |-> weeks_in_period,
         frequency_alert  |-> level[2],
         alert_level      |-> level[1]]

\* generate_detailed_report formats frequency_analysis['weeks_total'] and
\* divides by it; a missing key raises KeyError out of the function
render_report(fa) ==
    IF "weeks_total" \notin DOMAIN fa THEN "KeyError"
    ELSE IF fa.weeks_total = 0 THEN "ZeroDivisionError"
    ELSE "written"

-----------------------------------------------------------------------------
(* aval-usuario.py as a state machine: main() collects, then reports *)

InitUser ==
    /\ pc = "collect"
    /\ since_days \in WindowDays
    /\ commits_data = 0
    /\ frequency_analysis = Unset
    /\ report = None
    /\ AIIdle
    /\ RepoIdle
    /\ MainIdle

CollectUserData ==
    /\ pc = "collect"
    /\ \E authored \in 0..MaxAuthored :
       \E fetched \in 0..authored :
          /\ listing' = [authored |-> authored, fetched |-> fetched]
          /\ commits_data' = collect_commits(authored, fetched)
    /\ pc' = "frequency"
    /\ UNCHANGED <<since_days, frequency_analysis, report, aiVars, repoVars,
                   issues_data, reviews_data, disable_ai, ai_analysis, api_log,
                   workers, futures, results>>

AnalyzeCommitFrequency ==
    /\ pc = "frequency"
    /\ frequency_analysis' = analyze_commit_frequency(commits_data, since_days)
    /\ pc' = "render"
    /\ UNCHANGED <<mainVars, since_days, commits_data, report, aiVars, repoVars>>

GenerateDetailedReport ==
    /\ pc = "render"
    /\ report' = render_report(frequency_analysis)
    /\ pc' = IF report' = "written" THEN "saved" ELSE "crashed"
    /\ UNCHANGED <<mainVars, since_days, commits_data, frequency_analysis, aiVars, repoVars>>

NextUser == CollectUserData \/ AnalyzeCommitFrequency \/ GenerateDetailedReport

SpecUser == InitUser /\ [][NextUser]_vars

-----------------------------------------------------------------------------
(* main() of aval-usuario.py with its three AI analyses (lines 710-731) *)

\* windows of the runs explored, in days
MainWindows == {0, 7, 70}

IADisabled == [score |-> Half, analysis |-> Fixed("IA desabilitada"),
               recommendations |-> <<>>]

InitUserMain ==
    /\ pc = "main_collect"
    /\ since_days \in MainWindows
    /\ commits_data = 0
    /\ frequency_analysis = Unset
    /\ report = None
    /\ disable_ai \in BOOLEAN
    /\ enabled \in BOOLEAN
    /\ disable_ai => ~enabled
    /\ method = None
    /\ ai_input = [items |-> 0, messages |-> 0]
    /\ api_reply = <<>>
    /\ ai_result = NotAvailable
    /\ api_calls = 0
    /\ listing = [authored |-> 0, fetched |-> 0]
    /\ issues_data = 0
    /\ reviews_data = 0
    /\ ai_analysis = <<>>
    /\ api_log = <<>>
    /\ workers = 0
    /\ futures = <<>>
    /\ results = <<>>
    /\ RepoIdle

\* line 719: data = collect_user_data(repo, args.user, since_dt)
MainCollect ==
    /\ pc = "main_collect"
    /\ \E authored \in 0..MaxItems, i \in 0..MaxItems, r \in 0..MaxItems :
       \E fetched \in 0..authored :
          /\ listing' = [authored |-> authored, fetched |-> fetched]
          /\ commits_data' = collect_commits(authored, fetched)
          /\ issues_data' = i
          /\ reviews_data' = r
    /\ pc' = "main_ai_commits"
    /\ UNCHANGED <<since_days, frequency_analysis, report, aiVars, repoVars,
                   disable_ai, ai_analysis, api_log, workers, futures, results>>

\* one entry of the ai_analysis dict of lines 723-727: the method `m` gave r
MainAnalyzed(kind, m, r, outcome) ==
    /\ r.calls = 0 => outcome = <<>>
    /\ ai_analysis' = ai_analysis @@ (kind :> r.ret)
    /\ api_calls' = api_calls + r.calls
    /\ api_log' = logged(api_log, m, r.calls, outcome)
    /\ UNCHANGED <<userVars, repoVars, enabled, method, api_reply, ai_result,
                   listing, issues_data, reviews_data, disable_ai, workers,
                   futures, results>>

\* line 724
MainAnalyzeCommits ==
    /\ pc = "main_ai_commits"
    /\ \E outcome \in RepoOutcomes, k \in 0..commits_data :
          /\ ai_input' = [items |-> commits_data, messages |-> k]
          /\ MainAnalyzed("commits", "analyze_commits_detailed",
                 IF disable_ai THEN [ret |-> IADisabled, calls |-> 0]
                 ELSE analyze_commits_detailed(enabled, commits_data, k, outcome),
                 outcome)
    /\ pc' = "main_ai_issues"

\* line 725
MainAnalyzeIssues ==
    /\ pc = "main_ai_issues"
    /\ \E outcome \in RepoOutcomes :
          MainAnalyzed("issues", "analyze_issues_detailed",
              IF disable_ai THEN [ret |-> IADisabled, calls |-> 0]
              ELSE analyze_issues_detailed(enabled, issues_data, outcome),
              outcome)
    /\ pc' = "main_ai_reviews"
    /\ UNCHANGED ai_input

\* line 726
MainAnalyzeReviews ==
    /\ pc = "main_ai_reviews"
    /\ \E outcome \in RepoOutcomes :
          MainAnalyzed("reviews", "analyze_reviews_detailed",
              IF disable_ai THEN [ret |-> IADisabled, calls |-> 0]
              ELSE analyze_reviews_detailed(enabled, reviews_data, outcome),
              outcome)
    /\ pc' = "main_report"
    /\ UNCHANGED ai_input

\* lines 731-736: generate_detailed_report (which calls
\* analyze_commit_frequency first) and the write of the file
MainReport ==
    /\ pc = "main_report"
    /\ frequency_analysis' = analyze_commit_frequency(commits_data, since_days)
    /\ report' = render_report(frequency_analysis')
    /\ pc' = IF report' = "written" THEN "main_saved" ELSE "main_crashed"
    /\ UNCHANGED <<since_days, commits_data, aiVars, repoVars, mainVars>>

NextUserMain ==
    \/ MainCollect
    \/ MainAnalyzeCommits
    \/ MainAnalyzeIssues
    \/ MainAnalyzeReviews
    \/ MainReport

SpecUserMain == InitUserMain /\ [][NextUserMain]_vars

\* both scripts, one subject each
InitPipelines == InitRepo \/ InitUserMain

NextPipelines == NextRepo \/ NextUserMain

SpecPipelines == InitPipelines /\ [][NextPipelines]_vars

\* a script runs its statements one after the other until it ends
FairPipelines == SpecPipelines /\ WF_vars(NextPipelines)

-----------------------------------------------------------------------------

(* Claims about the commit-frequency heuristic (SpecUser) *)

FrequencyDone == pc \in {"render", "saved", "crashed"}

\* weeks of the window as the specification defines them
WindowWeeks == IF since_days \div 7 >= 1 THEN since_days \div 7 ELSE 1

\* C1: analyze_commit_frequency called with zero commits returns
\* weeks_inactive equal to weeks_total, the whole window, with alert_level
\* "critical".
C1_ZeroCommitsWholeWindowInactive ==
    (FrequencyDone /\ commits_data = 0) =>
        /\ frequency_analysis.alert_level = "critical"
        /\ "weeks_total" \in DOMAIN frequency_analysis
        /\ frequency_analysis.weeks_total = WindowWeeks
        /\ frequency_analysis.weeks_inactive = WindowWeeks

\* C2: every result of analyze_commit_frequency, zero commits included,
\* carries weeks_total >= 1 and 0 <= weeks_inactive <= weeks_total, so the
\* report can always read weeks_total and divide by it.
C2_ResultAlwaysCarriesWeeks ==
    /\ FrequencyDone =>
           /\ "weeks_total" \in DOMAIN frequency_analysis
           /\ frequency_analysis.weeks_total >= 1
           /\ frequency_analysis.weeks_inactive >= 0
           /\ frequency_analysis.weeks_inactive <= frequency_analysis.weeks_total
    /\ report # "KeyError"

\* C3: for commit_count > 0 the alert level is given by the chain, in
\* order: commits_per_week >= 1 good; weeks_inactive >= 0.7 weeks_total
\* high; weeks_inactive >= 0.4 weeks_total medium; commits_per_week < 0.5
\* low; otherwise normal.  12 commits in 10 weeks is good, 2 commits in
\* 10 weeks is high.
C3_AlertChain ==
    (FrequencyDone /\ commits_data > 0) =>
        LET c  == commits_data
            wt == frequency_analysis.weeks_total
            wi == frequency_analysis.weeks_inactive
        IN  /\ frequency_analysis.alert_level =
                   IF c >= wt THEN "good"
                   ELSE IF 10 * wi >= 7 * wt THEN "high"
                   ELSE IF 10 * wi >= 4 * wt THEN "medium"
                   ELSE IF 2 * c < wt THEN "low"
                   ELSE "normal"
            /\ (c = 12 /\ wt = 10) => frequency_analysis.alert_level = "good"
            /\ (c = 2 /\ wt = 10) => frequency_analysis.alert_level = "high"

C3_Witness ==
    /\ pc = "render"
    /\ commits_data = 3
    /\ since_days = 70
    /\ frequency_analysis.weeks_inactive = 7
    /\ frequency_analysis.alert_level = "high"

-----------------------------------------------------------------------------
(* Claims about the text-score extraction and the recommendations          *)
(* (SpecAnalyzer)                                                          *)

RepoMethods == {"analyze_commit_quality", "analyze_project_structure"}
UserMethods == {"analyze_commits_detailed", "analyze_issues_detailed",
                "analyze_reviews_detailed"}

\* the method returned a result built from a non-empty returned text
TextReturned == pc = "analyzed" /\ ai_result.analysis[1] = "text"
ReturnedText == ai_result.analysis[2]

\* u spells a numeral: digits, optionally a dot, optionally more digits
IsNumeral(u) ==
    \E k \in 1..Len(u) :
        /\ \A i \in 1..k : u[i] \in Digits
        /\ \/ k = Len(u)
           \/ u[k + 1] = "." /\ \A i \in (k + 2)..Len(u) : u[i] \in Digits

\* value of a numeral
NumeralValue(u) ==
    LET dots == {i \in 1..Len(u) : u[i] = "."}
        k    == IF dots = {} THEN Len(u) + 1 ELSE CHOOSE i \in dots : TRUE
    IN  Rat(int_of(SubSeq(u, 1, k - 1) \o SubSeq(u, k + 1, Len(u))),
            Pow10(IF dots = {} THEN 0 ELSE Len(u) - k))

HasDigit(t) == \E i \in 1..Len(t) : t[i] \in Digits

\* the first numeral of t: it starts at the first digit and is the longest
\* numeral starting there
FirstNumeral(t) ==
    LET p == CHOOSE i \in 1..Len(t) :
                 t[i] \in Digits /\ \A j \in 1..(i - 1) : t[j] \notin Digits
        e == CHOOSE j \in p..Len(t) :
                 /\ IsNumeral(SubSeq(t, p, j))
                 /\ \A k \in (j + 1)..Len(t) : ~IsNumeral(SubSeq(t, p, k))
    IN  SubSeq(t, p, e)

StartsWith(t, prefix) ==
    Len(t) >= Len(prefix) /\ SubSeq(t, 1, Len(prefix)) = prefix

\* C9: the score of every analysis kind is the first decimal-or-integer
\* numeral of the returned text clamped to [0, 1], and 0.5 when the text has
\* no numeral; so it is in [0, 1] for every non-empty returned text, and
\* a text beginning "Score: 0.75." yields 0.75.
C9_FirstNumeralClamped ==
    TextReturned =>
        LET t == ReturnedText
            v == NumeralValue(FirstNumeral(t))
        IN  /\ InUnit(ai_result.score)
            /\ ~HasDigit(t) => ai_result.score = Half
            /\ HasDigit(t) =>
                  ai_result.score = IF RLt(One, v) THEN One
                                    ELSE IF RLt(v, Zero) THEN Zero ELSE v
            /\ StartsWith(t, L_score) => ai_result.score = <<3, 4>>

C9_Witness ==
    /\ TextReturned
    /\ method = "analyze_commits_detailed"
    /\ StartsWith(ReturnedText, L_plain)
    /\ NumeralValue(FirstNumeral(ReturnedText)) = <<10, 1>>
    /\ ai_result.score = One

\* C10: the recommendations list never exceeds its cap on any path: at
\* most 2 entries for the repository-level analyses, at most 3 for the
\* per-user detailed analyses.
C10_RecommendationsCapped ==
    pc = "analyzed" =>
        /\ method \in RepoMethods => Len(ai_result.recommendations) <= 2
        /\ method \in UserMethods => Len(ai_result.recommendations) <= 3

C10_Witness ==
    /\ TextReturned
    /\ method = "analyze_commit_quality"
    /\ Len(extract_recommendations_uncapped(ReturnedText)) = 4
    /\ Len(ai_result.recommendations) = 2

-----------------------------------------------------------------------------
(* Claims about the composite score (SpecRepo) *)

Assessed == pc = "assessed"

\* the tier of a score by the thresholds 0.8, 0.6, 0.4, each inclusive
TierOf(x) ==
    IF 10 * Num(x) >= 8 * Den(x) THEN "Excelente"
    ELSE IF 10 * Num(x) >= 6 * Den(x) THEN "Maduro"
    ELSE IF 10 * Num(x) >= 4 * Den(x) THEN "Em Desenvolvimento"
    ELSE "Iniciante"

\* C4: in every assessment returned the maturity_level is the tier of the
\* reported final_score (the weighted sum rounded to 3 decimals, then
\* mapped), a reported 0.8, 0.6 or 0.4 mapping to the higher tier.
C4_TierOfReportedScore ==
    Assessed => assessment.maturity_level = TierOf(assessment.final_score)

\* 100000 times the weighted sum of six scores, as a rational
Weighted100k(v, c, q, s, st, e) ==
    RAdd(RAdd(RAdd(RAdd(RAdd(
        RMul(<<25000, 1>>, v), RMul(<<20000, 1>>, c)), RMul(<<20000, 1>>, q)),
        RMul(<<15000, 1>>, s)), RMul(<<10000, 1>>, st)), RMul(<<10000, 1>>, e))

\* C5: final_score equals, rounded to 3 decimals, 0.25 velocity + 0.20
\* collaboration + 0.20 commit quality + 0.15 structure quality (AI) + 0.10
\* structural checklist + 0.10 engagement, all six always present, 0.5
\* standing for an unavailable qualitative signal.
C5_WeightedSumOfSix ==
    Assessed =>
        LET w == Weighted100k(velocity_metrics.score, collaboration_metrics.score,
                              ai_commit_analysis.score, ai_structure_analysis.score,
                              structure_metrics.score, engagement_metrics.score)
        IN  /\ assessment.final_score =
                   Rat(RoundHalfEven(Num(w), 100 * Den(w)), 1000)
            /\ ai_commit_analysis.analysis[1] = "fixed" => ai_commit_analysis.score = Half
            /\ ai_structure_analysis.analysis[1] = "fixed" =>
                   ai_structure_analysis.score = Half

C5_Witness ==
    /\ Assessed
    /\ velocity_metrics.score = <<7, 40>>
    /\ collaboration_metrics.score = <<1, 5>>
    /\ ai_commit_analysis.score = <<3, 4>>
    /\ ai_structure_analysis.score = One
    /\ structure_metrics.score = <<3, 5>>
    /\ engagement_metrics.score = <<333, 1000>>
    /\ assessment.final_score = <<477, 1000>>

WeightNames == DOMAIN AGILE_METRICS_WEIGHTS

RECURSIVE SumWeights(_)
SumWeights(names) ==
    IF names = {} THEN Zero
    ELSE LET n == CHOOSE x \in names : TRUE
         IN  RAdd(AGILE_METRICS_WEIGHTS[n], SumWeights(names \ {n}))

SixSignalsInUnit ==
    /\ InUnit(velocity_metrics.score)
    /\ InUnit(collaboration_metrics.score)
    /\ InUnit(ai_commit_analysis.score)
    /\ InUnit(ai_structure_analysis.score)
    /\ InUnit(structure_metrics.score)
    /\ InUnit(engagement_metrics.score)

\* C6: the six weights are non-negative and sum to exactly 1.0, so for six
\* signals each in [0, 1] the final_score lies in [0, 1].
C6_FinalScoreInUnit ==
    /\ Cardinality(WeightNames) = 6
    /\ \A n \in WeightNames : RLeq(Zero, AGILE_METRICS_WEIGHTS[n])
    /\ SumWeights(WeightNames) = One
    /\ (Assessed /\ SixSignalsInUnit) => InUnit(assessment.final_score)

C6_Witness ==
    /\ Assessed
    /\ velocity_metrics.score = One
    /\ collaboration_metrics.score = One
    /\ ai_commit_analysis.score = One
    /\ ai_structure_analysis.score = One
    /\ structure_metrics.score = One
    /\ engagement_metrics.score = One
    /\ assessment.final_score = One

-----------------------------------------------------------------------------
(* Claims about the normalized sub-scores (SpecMetrics) *)

Measured(metrics, field) == pc = "measured" /\ field \in DOMAIN metrics

\* min(1, r / ceiling) for r >= 0
Ramp(r, ceiling) == IF r >= ceiling THEN One ELSE Rat(r, ceiling)

RampOK(x, r, ceiling) ==
    r >= 0 =>
        /\ x = Ramp(r, ceiling)
        /\ InUnit(x)
        /\ r = 0 => x = Zero
        /\ r >= ceiling => x = One

\* C7: for every raw count r >= 0 the normalized sub-scores equal
\* min(1.0, r / ceiling) with the ceilings 5 commits/week, 20 issues+PRs,
\* 5 contributors, 10 stars, 5 forks, 10 watchers: in [0, 1], 0.0 at r = 0
\* and exactly 1.0 whenever r >= ceiling.
C7_SubScoresSaturate ==
    /\ Measured(engagement_metrics, "stars") =>
          /\ RampOK(star_score(engagement_metrics.stars), engagement_metrics.stars, 10)
          /\ RampOK(fork_score(engagement_metrics.forks), engagement_metrics.forks, 5)
          /\ RampOK(watch_score(engagement_metrics.watchers),
                    engagement_metrics.watchers, 10)
          /\ (engagement_metrics.stars >= 10 /\ engagement_metrics.forks >= 5
                /\ engagement_metrics.watchers >= 10) => engagement_metrics.score = One
    /\ Measured(collaboration_metrics, "total_issues") =>
          /\ RampOK(activity_score(collaboration_metrics.total_issues,
                                   collaboration_metrics.total_prs),
                    collaboration_metrics.total_issues + collaboration_metrics.total_prs, 20)
          /\ RampOK(diversity_score(collaboration_metrics.unique_contributors),
                    collaboration_metrics.unique_contributors, 5)
          /\ (collaboration_metrics.total_issues + collaboration_metrics.total_prs >= 20
                /\ collaboration_metrics.unique_contributors >= 5) =>
                 collaboration_metrics.score = One
    /\ Measured(velocity_metrics, "total_commits") =>
          LET c == velocity_metrics.total_commits
              \* commits per week = c / max(1, age_days / 7) = 7c / max(7, age_days)
              d == IF age_days >= 7 THEN age_days ELSE 7
          IN  /\ InUnit(velocity_metrics.score)
              /\ velocity_metrics.score = IF 7 * c >= 5 * d THEN One ELSE Rat(7 * c, 5 * d)
              /\ c = 0 => velocity_metrics.score = Zero

C7_Witness ==
    /\ Measured(engagement_metrics, "stars")
    /\ engagement_metrics.stars = 12
    /\ engagement_metrics.forks = 5
    /\ engagement_metrics.watchers = 10
    /\ star_score(engagement_metrics.stars) = One
    /\ engagement_metrics.score = One

\* C8: the score of every MetricResult (velocity, collaboration, structure,
\* engagement) is clamped to [0.0, 1.0] for any raw input whatsoever; a
\* negative raw count is floored to 0.0 instead of giving a negative score.
C8_ScoreClampedForAnyInput ==
    pc = "measured" =>
        /\ InUnit(velocity_metrics.score)
        /\ InUnit(collaboration_metrics.score)
        /\ InUnit(structure_metrics.score)
        /\ InUnit(engagement_metrics.score)

-----------------------------------------------------------------------------
(* Claims about the adapter (SpecAnalyzer, SpecRepo) *)

\* C11: when the adapter is disabled, every analysis call of both analyzers
\* returns the absent-text default (score 0.5, a fixed "not available" style
\* analysis string and no or placeholder recommendations, never a text of
\* the service) and no request to the service is issued.
C11_DisabledNoExternalCall ==
    (pc = "analyzed" /\ ~enabled) =>
        /\ ai_result.score = Half
        /\ ai_result.analysis[1] \in {"fixed", "basic"}
        /\ ai_result.recommendations \in {<<>>, ConfigureOpenAI}
        /\ api_reply = <<>>
        /\ api_calls = 0

C11_Witness ==
    /\ pc = "analyzed"
    /\ ~enabled
    /\ method = "analyze_commits_detailed"
    /\ ai_input = [items |-> 1, messages |-> 1]
    /\ ai_result.recommendations = ConfigureOpenAI
    /\ api_calls = 0

Requested(m) == \E i \in DOMAIN api_log : api_log[i].method = m

RequestFailed(m) == \E i \in DOMAIN api_log : api_log[i].method = m /\ api_log[i].failed

PipelineDone == pc \in {"assessed", "main_saved", "main_crashed"}

SomeRequestFailed == \E i \in DOMAIN api_log : api_log[i].failed

\* what a failed request leaves behind, in every state of a run
FailureIsolated ==
    /\ api_log # <<>> => enabled
    /\ Len(api_log) = api_calls
    \* aval-repos-novos.py
    /\ (RequestFailed("analyze_commit_quality") /\ pc \in {"ai_structure", "score", "assessed"})
          => ai_commit_analysis.score = Half
    /\ (RequestFailed("analyze_project_structure") /\ pc \in {"score", "assessed"})
          => ai_structure_analysis.score = Half
    /\ (pc \in {"score", "assessed"} /\ enabled) =>
          /\ Requested("analyze_project_structure")
          /\ Requested("analyze_commit_quality") <=> commit_messages > 0
    \* aval-usuario.py
    /\ RequestFailed("analyze_commits_detailed") => ai_analysis.commits.score = Half
    /\ RequestFailed("analyze_issues_detailed") => ai_analysis.issues.score = Half
    /\ RequestFailed("analyze_reviews_detailed") => ai_analysis.reviews.score = Half
    /\ (pc \in {"main_report", "main_saved", "main_crashed"} /\ enabled) =>
          /\ Requested("analyze_commits_detailed") <=> ai_input.messages > 0
          /\ Requested("analyze_issues_detailed") <=> issues_data > 0
          /\ Requested("analyze_reviews_detailed") <=> reviews_data > 0
    /\ pc \in {"main_saved", "main_crashed"} =>
          (report = "written" <=> commits_data > 0)

-----------------------------------------------------------------------------
(* Claims about the recommendation lines (SpecAnalyzer) *)

FirstN(seq, n) == SubSeq(seq, 1, IF Len(seq) < n THEN Len(seq) ELSE n)

\* the recommendations of a text as the claim describes them: the
\* keyword-bearing lines, their leading list markers stripped, those shorter
\* than 10 characters rejected
ClaimedRecommendations(text) ==
    LET lines == str_split_lines(text)
        RECURSIVE Pick(_)
        Pick(i) ==
            IF i > Len(lines) THEN <<>>
            ELSE LET cleaned == str_lstrip(lines[i], ListMarkers)
                 IN  IF has_keyword(lines[i]) /\ Len(cleaned) >= 10
                     THEN <<cleaned>> \o Pick(i + 1)
                     ELSE Pick(i + 1)
    IN  Pick(1)

\* C19: in both the repository-level and the per-user analyses a
\* keyword-bearing line becomes a recommendation only with its leading list
\* markers (digits, dots, dashes, asterisks, whitespace) stripped, and is
\* rejected exactly when the cleaned text is shorter than 10 characters (a
\* cleaned text of exactly 10 characters is kept).
C19_MarkersStrippedTenKept ==
    TextReturned =>
        LET claimed == ClaimedRecommendations(ReturnedText)
        IN  /\ method \in RepoMethods =>
                  ai_result.recommendations = TagLines(FirstN(claimed, 2))
            /\ (method \in UserMethods /\ claimed # <<>>) =>
                  ai_result.recommendations = TagLines(FirstN(claimed, 3))

CannedOf(m) ==
    IF m = "analyze_commits_detailed" THEN CannedCommits
    ELSE IF m = "analyze_issues_detailed" THEN CannedIssues
    ELSE CannedReviews

\* C20: in the per-user detailed path, whenever the service returned text
\* in which no recommendation candidate (keyword-bearing line) was found,
\* the result carries the fixed canned list of three recommendations of
\* that analysis kind, and the list is never empty.
C20_CannedWhenNoCandidate ==
    (TextReturned /\ method \in UserMethods) =>
        /\ ai_result.recommendations # <<>>
        /\ ~has_keyword(ReturnedText) =>
              /\ ai_result.recommendations = CannedOf(method)
              /\ Len(ai_result.recommendations) = 3
        /\ CannedCommits # CannedIssues
        /\ CannedIssues # CannedReviews
        /\ CannedCommits # CannedReviews

C20_Witness ==
    /\ TextReturned
    /\ method = "analyze_issues_detailed"
    /\ ReturnedText = L_score
    /\ ai_result.recommendations = CannedIssues

-----------------------------------------------------------------------------
(* Claims about the worker pool (SpecPool) *)

Occurrences(seq, x) == Cardinality({i \in DOMAIN seq : seq[i] = x})

\* C13: with the repositories analyzed in parallel, a failure in one
\* analysis never affects its siblings: in every interleaving and completion
\* order, once all tasks have finished the results list holds exactly one
\* assessment for each repository whose analysis did not raise and none for
\* one whose analysis raised (and never anything else on the way there).
C13_PoolIsolatesFailures ==
    /\ \A i \in DOMAIN results :
          \E r \in InState("yielded") :
             ~futures[r].raised /\ results[i] = <<[repo_name |-> r]>>
    /\ \A r \in Repos : Occurrences(results, <<[repo_name |-> r]>>) <= 1
    /\ pc = "pooled" =>
          \A r \in Repos :
             Occurrences(results, <<[repo_name |-> r]>>) = IF futures[r].raised THEN 0 ELSE 1

C13_Witness ==
    /\ pc = "pooled"
    /\ Cardinality(Repos) = 3
    /\ futures[2].raised
    /\ results = << <<[repo_name |-> 3]>>, <<[repo_name |-> 1]>> >>

-----------------------------------------------------------------------------
(* Claims about the structural checklist and the averages (SpecMetrics) *)

\* the five flags of a listing made of the paths of Paths, each of which
\* bears on one flag only: <<readme, gitignore, license, tests, ci>>
FlagsOf(fs) ==
    <<P_readme \in fs, P_gitignore \in fs, P_license \in fs, P_tests \in fs, P_github \in fs>>

CountTrue(flags) == Cardinality({i \in DOMAIN flags : flags[i]})

\* C14: the structural checklist score is count(true)/5 over exactly the
\* five flags has_readme, has_gitignore, has_license, has_tests, has_ci, so
\* it is one of 0, 0.2, 0.4, 0.6, 0.8, 1.0, and the flags
\* {true, false, true, true, false} give 0.6.
C14_ChecklistIsCountOverFive ==
    Measured(structure_metrics, "has_readme") =>
        LET flags == FlagsOf(structure_metrics.file_structure)
        IN  /\ structure_metrics.has_readme = flags[1]
            /\ structure_metrics.has_tests = flags[4]
            /\ structure_metrics.has_ci = flags[5]
            /\ structure_metrics.score = Rat(CountTrue(flags), 5)
            /\ structure_metrics.score \in {Rat(k, 5) : k \in 0..5}
            /\ flags = <<TRUE, FALSE, TRUE, TRUE, FALSE>> =>
                   structure_metrics.score = <<3, 5>>

C14_Witness ==
    /\ Measured(structure_metrics, "has_readme")
    /\ FlagsOf(structure_metrics.file_structure) = <<TRUE, FALSE, TRUE, TRUE, FALSE>>
    /\ structure_metrics.has_readme
    /\ ~structure_metrics.has_ci
    /\ structure_metrics.score = <<3, 5>>

\* the two averages named by the claim, from the raw counts of the dicts
CollaborationAverage ==
    LET n == collaboration_metrics.total_issues + collaboration_metrics.total_prs
        k == collaboration_metrics.unique_contributors
        activity  == IF n >= 20 THEN One ELSE Rat(n, 20)
        diversity == IF k >= 5 THEN One ELSE Rat(k, 5)
    IN  RMul(RAdd(activity, diversity), <<1, 2>>)

EngagementAverage ==
    LET s == engagement_metrics.stars
        f == engagement_metrics.forks
        w == engagement_metrics.watchers
        star  == IF s >= 10 THEN One ELSE Rat(s, 10)
        fork  == IF f >= 5 THEN One ELSE Rat(f, 5)
        watch == IF w >= 10 THEN One ELSE Rat(w, 10)
    IN  RMul(RAdd(RAdd(star, fork), watch), <<1, 3>>)

\* the counts of the engagement dict are those a platform reports
CountsNonNegative ==
    /\ engagement_metrics.stars >= 0
    /\ engagement_metrics.forks >= 0
    /\ engagement_metrics.watchers >= 0

\* C18 as stated: the collaboration score is the average of the activity
\* and diversity normalizations and the engagement score is the unweighted
\* average of the star, fork and watcher normalizations, neither flattened
\* into a single ceiling, both in [0, 1].
C18_AveragesExact ==
    /\ Measured(collaboration_metrics, "total_issues") =>
          /\ collaboration_metrics.score = CollaborationAverage
          /\ InUnit(collaboration_metrics.score)
    /\ Measured(engagement_metrics, "stars") =>
          /\ engagement_metrics.score = EngagementAverage
          /\ CountsNonNegative => InUnit(engagement_metrics.score)

\* C18 (amended): the collaboration score and the engagement score are
\* those two averages rounded to 3 decimals (which leaves the collaboration
\* average, a multiple of 0.025, unchanged, and moves the engagement average
\* by less than 0.0005); neither is flattened into a single ceiling and,
\* for counts >= 0, both lie in [0, 1].
C18_AveragesRounded ==
    /\ Measured(collaboration_metrics, "total_issues") =>
          /\ collaboration_metrics.score = Round(CollaborationAverage, 3)
          /\ collaboration_metrics.score = CollaborationAverage
          /\ InUnit(collaboration_metrics.score)
    /\ Measured(engagement_metrics, "stars") =>
          /\ engagement_metrics.score = Round(EngagementAverage, 3)
          /\ CountsNonNegative => InUnit(engagement_metrics.score)

C18_Witness ==
    /\ Measured(engagement_metrics, "stars")
    /\ engagement_metrics.stars = 1
    /\ engagement_metrics.forks = 0
    /\ engagement_metrics.watchers = 0
    /\ EngagementAverage = <<1, 30>>
    /\ engagement_metrics.score = <<33, 1000>>

-----------------------------------------------------------------------------
(* Claims about the per-user commit count and window (SpecUser) *)

\* the listing of the user's commits ended without raising
ListedAll == listing.fetched = listing.authored

\* C15: in collect_user_data followed by analyze_commit_frequency the commit
\* count on which the frequency assessment is computed is the number of
\* commits the user authored within the window, for any number of them; so
\* a user with at least as many commits as weeks is assessed with
\* weeks_inactive = 0 and level "good".
C15_CountIsCommitsAuthored ==
    (FrequencyDone /\ ListedAll) =>
        /\ commits_data = listing.authored
        /\ (listing.authored > 0 /\ listing.authored >= WindowWeeks) =>
              /\ frequency_analysis.weeks_inactive = 0
              /\ frequency_analysis.alert_level = "good"

\* analyze_commit_frequency returned a dict, whatever the window
FrequencyReturned == "alert_level" \in DOMAIN frequency_analysis

C17_WeeksInactiveFloored ==
    (FrequencyDone /\ commits_data > 0) =>
        LET wt == frequency_analysis.weeks_total
            wi == frequency_analysis.weeks_inactive
        IN  /\ commits_data < wt => wi = wt - commits_data
            /\ commits_data >= wt => wi = 0
            /\ wi >= 0

C17_Witness ==
    /\ FrequencyDone
    /\ commits_data = 20
    /\ frequency_analysis.weeks_total = 3
    /\ frequency_analysis.weeks_inactive = 0

-----------------------------------------------------------------------------
(* Claims about a failed request (SpecAnalyzer) *)

\* the request of an enabled analyzer was issued and no text came back
CallFailed ==
    /\ pc = "analyzed"
    /\ enabled
    /\ api_calls = 1
    /\ ~truthy(call_openai(TRUE, api_reply))

\* what method m returns for the same input when the analyzer is disabled
DisabledReturn(m, input) ==
    IF m = "analyze_commit_quality"
    THEN analyze_commit_quality(FALSE, input.messages, <<>>).ret
    ELSE IF m = "analyze_project_structure"
    THEN analyze_project_structure(FALSE, input.items, <<>>).ret
    ELSE IF m = "analyze_commits_detailed"
    THEN analyze_commits_detailed(FALSE, input.items, input.messages, <<>>).ret
    ELSE IF m = "analyze_issues_detailed"
    THEN analyze_issues_detailed(FALSE, input.items, <<>>).ret
    ELSE analyze_reviews_detailed(FALSE, input.items, <<>>).ret

\* C21: when the request of an enabled analyzer fails (no text comes back),
\* the analysis returns the same score, analysis string and recommendations
\* that the disabled path returns for the same input, for each analysis
\* kind of both analyzers.
C21_FailureReturnsDisabledDefault ==
    CallFailed => ai_result = DisabledReturn(method, ai_input)


-----------------------------------------------------------------------------
(* Claims about a failed collection (FairPipelines) *)

\* the except clause of the collection named by `what` has run
FacetFailed(what) == \E i \in DOMAIN printed : printed[i] = what

SomeFacetFailed ==
    \E what \in {"Erro ao calcular velocidade", "Erro ao calcular colaboracao",
                 "Erro ao analisar estrutura", "Erro ao calcular engajamento"} :
        FacetFailed(what)

Tiers == {"Excelente", "Maduro", "Em Desenvolvimento", "Iniciante"}

\* every facet already collected is either the zero default (its collection
\* failed) or the value of its own counts alone (it did not), whatever
\* happened to the other facets
FacetsIsolated ==
    /\ FacetFailed("Erro ao calcular velocidade") => "total_commits" \in DOMAIN velocity_metrics
    /\ "total_commits" \in DOMAIN velocity_metrics =>
          IF FacetFailed("Erro ao calcular velocidade")
          THEN velocity_metrics = [total_commits |-> 0, weeks_since_creation |-> Zero,
                                   commits_per_week |-> Zero, score |-> Zero]
          ELSE velocity_metrics =
                   calculate_development_velocity(FALSE, velocity_metrics.total_commits,
                                                  age_days)
    /\ FacetFailed("Erro ao calcular colaboracao") => "total_issues" \in DOMAIN collaboration_metrics
    /\ "total_issues" \in DOMAIN collaboration_metrics =>
          IF FacetFailed("Erro ao calcular colaboracao")
          THEN collaboration_metrics = [total_issues |-> 0, total_prs |-> 0,
                                        unique_contributors |-> 0, score |-> Zero]
          ELSE collaboration_metrics =
                   calculate_collaboration_index(FALSE, collaboration_metrics.total_issues,
                                                 collaboration_metrics.total_prs,
                                                 collaboration_metrics.unique_contributors)
    /\ FacetFailed("Erro ao analisar estrutura") => "total_files" \in DOMAIN structure_metrics
    /\ "total_files" \in DOMAIN structure_metrics =>
          IF FacetFailed("Erro ao analisar estrutura")
          THEN structure_metrics = [total_files |-> 0, has_readme |-> FALSE,
                                    has_tests |-> FALSE, has_ci |-> FALSE,
                                    file_structure |-> {}, score |-> Zero]
          ELSE structure_metrics =
                   analyze_project_structure_metrics(FALSE, structure_metrics.file_structure)
    /\ FacetFailed("Erro ao calcular engajamento") => "stars" \in DOMAIN engagement_metrics
    /\ "stars" \in DOMAIN engagement_metrics =>
          IF FacetFailed("Erro ao calcular engajamento")
          THEN engagement_metrics = [stars |-> 0, forks |-> 0, watchers |-> 0,
                                     score |-> Zero]
          ELSE engagement_metrics =
                   calculate_community_engagement(FALSE, engagement_metrics.stars,
                                                  engagement_metrics.forks,
                                                  engagement_metrics.watchers)
    /\ pc = "assessed" =>
          /\ DOMAIN assessment = {"final_score", "maturity_level"}
          /\ assessment.maturity_level \in Tiers
          /\ assessment.final_score =
                 Round(weighted_sum(velocity_metrics.score, collaboration_metrics.score,
                                    ai_commit_analysis.score, ai_structure_analysis.score,
                                    structure_metrics.score, engagement_metrics.score), 3)

\* C22: when the collection of one facet of a repository (commits,
\* issues/PRs, path listing or popularity counts) fails, that facet's metric
\* is score 0.0 with zero counters, the other facets are computed from their
\* own data unaffected, and analyze_repository_comprehensive still returns
\* an assessment with a final_score and a tier for the subject.
C22_FacetFailureIsolated ==
    /\ []FacetsIsolated
    /\ SomeFacetFailed ~> (pc = "assessed")

C22_Witness ==
    /\ pc = "assessed"
    /\ printed = <<"Erro ao calcular colaboracao">>
    /\ collaboration_metrics.score = Zero
    /\ collaboration_metrics.total_issues = 0
    /\ velocity_metrics.total_commits = 5
    /\ velocity_metrics.score = One
    /\ structure_metrics.total_files = 6
    /\ engagement_metrics.stars = 5
    /\ RLt(Zero, assessment.final_score)


-----------------------------------------------------------------------------
(* Claims about the levels of the commit-frequency heuristic (SpecUser) *)

ReachableLevels == {"critical", "high", "medium", "normal", "good"}

\* each of the five levels is returned for some commit count of a window
LevelsReturned(days) ==
    \A level \in ReachableLevels :
        \E n \in 0..SAMPLE_SIZE : analyze_commit_frequency(n, days).alert_level = level

\* C23: analyze_commit_frequency never returns alert_level "low", for any
\* commit count and window: whenever commits_per_week < 0.5 with at least
\* one commit, weeks_inactive >= 0.4 * weeks_total already holds and the
\* level is "medium" or "high"; the levels returned are exactly critical,
\* high, medium, normal and good (all five occur for a window of 10 weeks).
C23_LowNeverReturned ==
    /\ FrequencyReturned =>
          /\ frequency_analysis.alert_level \in ReachableLevels
          /\ (commits_data >= 1 /\ 2 * commits_data < WindowWeeks) =>
                /\ 10 * frequency_analysis.weeks_inactive >= 4 * frequency_analysis.weeks_total
                /\ frequency_analysis.alert_level \in {"medium", "high"}
    /\ (pc = "collect" /\ since_days = 70) => LevelsReturned(since_days)

C23_Witness ==
    /\ FrequencyReturned
    /\ since_days = 35
    /\ commits_data = 2
    /\ frequency_analysis.commits_per_week = <<2, 5>>
    /\ frequency_analysis.weeks_inactive = 3
    /\ frequency_analysis.alert_level = "medium"


\* the severity order critical < high < medium < low < normal < good
Rank(level) ==
    CASE level = "critical" -> 0
      [] level = "high"     -> 1
      [] level = "medium"   -> 2
      [] level = "low"      -> 3
      [] level = "normal"   -> 4
      [] level = "good"     -> 5

\* C24: for a fixed window the alert level of analyze_commit_frequency is
\* monotone in the commit count: with the severity order critical < high <
\* medium < low < normal < good, every smaller commit count yields a level
\* at least as severe as the one returned, and, among commit counts >= 1, a
\* weeks_inactive at least as large.
C24_LevelMonotoneInCommits ==
    FrequencyReturned =>
        \A m \in 0..commits_data :
            LET smaller == analyze_commit_frequency(m, since_days)
            IN  /\ Rank(smaller.alert_level) <= Rank(frequency_analysis.alert_level)
                /\ m >= 1 => smaller.weeks_inactive >= frequency_analysis.weeks_inactive

C24_Witness ==
    /\ FrequencyReturned
    /\ since_days = 70
    /\ commits_data = 7
    /\ frequency_analysis.alert_level = "normal"
    /\ frequency_analysis.weeks_inactive = 3
    /\ analyze_commit_frequency(5, since_days).alert_level = "medium"
    /\ analyze_commit_frequency(1, since_days).weeks_inactive = 9


=============================================================================
